---- MODULE Spec2Model ----
(***************************************************************************)
(* A model of three parts of the constraint/trace engine:                  *)
(*   - FpMulConst (starky/src/arithmetic/field/mul_const.rs): the row      *)
(*     writer trace_row/assign_row/write_fpmul_const and the two           *)
(*     constraint backends;                                                *)
(*   - ByteOperationInstruction (curta/src/chip/uint/bytes/operations/     *)
(*     instruction.rs): write and write_to_air;                            *)
(*   - the witness driver of test_blake2b (curta/src/machine/hash/blake/   *)
(*     blake2b/builder.rs).                                                *)
(* Big integers are scaled: a limb has LimbBits bits instead of 16, a      *)
(* field element has NB_LIMBS limbs instead of 16, a byte has ByteBits     *)
(* bits instead of 8, so that every value stays inside TLC's integers.     *)
(* The shape of the parameter set is the one of Fp25519Param:              *)
(*   p = LIMB^NB_LIMBS / 2 - 19, NB_WITNESS_LIMBS = 2*NB_LIMBS - 2,        *)
(*   WITNESS_OFFSET = NB_LIMBS * LIMB (2^20 = 16 * 2^16).                  *)
(***************************************************************************)
EXTENDS Integers, Sequences, FiniteSets, TLC

VARIABLES
    c,                 \* FpMulConst.c: the constant, MAX_NB_LIMBS limbs
    debug_assertions,  \* build profile: are debug_assert!s compiled in
    trace,             \* the FpMulConst chip trace: rows of columns
    i,                 \* loop index of the row-writing loop
    status,            \* "running", "done" or "panicked"
    a_int,             \* the a of the last loop iteration (-1: none yet)
    res,               \* the BigUint write_fpmul_const returned (-1: none)
    ev_row,            \* constraint evaluation: the one-row trace the parsers read
    ev_tampered,       \* a cell of ev_row was overwritten after the fill
    ev_packed,         \* residues of the packed backend (<<>>: not run)
    ev_ext,            \* residues of the recursive circuit (<<>>: not run)
    byte_ins,          \* the ByteOperationInstruction: inner, digest, global
    byte_data,         \* the trace matrix and public vector its writers fill
    byte_written,      \* the cells the instruction has written so far
    byte_call,         \* the last call: api, row index, cells it wrote
    air_data,          \* stark.air_data: instructions, global_instructions
    writer_data,       \* AirWriterData: trace and public
    fill_input,        \* writer_data as the input writes left it
    chunk_size,        \* rows of a chunk of writer_data.chunks
    fill_phase,        \* "global", "rows" or "done"
    chunk_i,           \* per chunk: the next i of its row loop
    cell_writes,       \* per cell: the workers that wrote it, in order
    worker_log,        \* per worker: the write_to_air calls it made
    s1_a,              \* full-width FpMulConst: the input a
    s1_row,            \* the row trace_row returned (<<>>: not written)
    s1_res,            \* the BigUint write_fpmul_const returned, as limbs
    s1_residues,       \* the constraints evaluated on the row (<<>>: not run)
    msgs,              \* test_blake2b: the messages, length and max chunks
    msg_next,          \* index of the next message the preparation loop takes
    input_values,      \* the *_values vectors and start_index
    round,             \* the writer loop: its next i
    current_state,     \* the running hash state of the writer loop
    write_log,         \* what the writer loop wrote, compressed and reset
    blake_pc           \* "prepare", "write", "indices" or "done"

mulVars == <<c, debug_assertions, trace, i, status, a_int, res>>
evalVars == <<ev_row, ev_tampered, ev_packed, ev_ext>>
byteVars == <<byte_ins, byte_data, byte_written, byte_call>>

fillVars == <<air_data, writer_data, fill_input, chunk_size, fill_phase, chunk_i,
              cell_writes, worker_log>>

s1Vars == <<s1_a, s1_row, s1_res, s1_residues>>
blakeVars == <<msgs, msg_next, input_values, round, current_state, write_log, blake_pc>>

vars == <<mulVars, evalVars, byteVars, fillVars, s1Vars, blakeVars>>

----------------------------------------------------------------------------
(* Parameters *)

\* bits of a limb (16 in the source)
LimbBits == 3
\* FieldParameters::NB_LIMBS (16 for Fp25519Param)
NB_LIMBS == 2
\* rows of the FpMulConst trace (2^16 in the source)
num_rows == 2
\* bits of a byte (8 in the source)
ByteBits == 2
\* inputs a drawn for a row: 0..ALow, p-AWin..p+AWin and the largest
\* value NB_LIMBS limbs hold
ALow == 6
AWin == 6

LIMB == 2 ^ LimbBits
MAX_NB_LIMBS == NB_LIMBS + 1
NB_WITNESS_LIMBS == 2 * NB_LIMBS - 2
WITNESS_OFFSET == NB_LIMBS * LIMB
modulus_biguint == (LIMB ^ NB_LIMBS) \div 2 - 19
\* order of the base field (Goldilocks in the source): a prime larger than
\* every honest cell and residue
FieldOrder == 2 ^ 13 - 2 ^ 9 + 1

Min(x, y) == IF x < y THEN x ELSE y
Max(x, y) == IF x < y THEN y ELSE x

----------------------------------------------------------------------------
(* Field and polynomial primitives *)

from_canonical(x) == x % FieldOrder
FAdd(x, y) == (x + y) % FieldOrder
FSub(x, y) == (x - y) % FieldOrder
FMul(x, y) == (x * y) % FieldOrder
FNeg(x) == (0 - x) % FieldOrder

RECURSIVE SeqSum(_)
SeqSum(s) == IF s = <<>> THEN 0 ELSE Head(s) + SeqSum(Tail(s))

\* coefficient k (0-based) of the product of p and q over the integers
MulCoeff(p, q, k) ==
    SeqSum([j \in 1..Len(p) |->
              IF (k - (j - 1)) \in 0..(Len(q) - 1)
              THEN p[j] * q[k - (j - 1) + 1] ELSE 0])

\* Polynomial<i64>: Mul, Sub
PolyMul(p, q) == [k \in 1..(Len(p) + Len(q) - 1) |-> MulCoeff(p, q, k - 1)]
PolySub(p, q) ==
    [k \in 1..Max(Len(p), Len(q)) |->
        (IF k <= Len(p) THEN p[k] ELSE 0) - (IF k <= Len(q) THEN q[k] ELSE 0)]
\* Polynomial::degree
degree(p) == Len(p) - 1
\* the value of the polynomial at x
PolyEval(p, x) == SeqSum([k \in 1..Len(p) |-> p[k] * x ^ (k - 1)])

\* PolynomialOps over packed field elements
PolynomialOps_mul(p, q) ==
    [k \in 1..(Len(p) + Len(q) - 1) |-> MulCoeff(p, q, k - 1) % FieldOrder]
PolynomialOps_sub(p, q) ==
    [k \in 1..Max(Len(p), Len(q)) |->
        FSub(IF k <= Len(p) THEN p[k] ELSE 0, IF k <= Len(q) THEN q[k] ELSE 0)]
PolynomialOps_scalar_poly_mul(p, q) == PolynomialOps_mul(p, q)

\* PolynomialGadget over extension targets of the recursive circuit
PolynomialGadget_mul_extension(p, q) ==
    [k \in 1..(Len(p) + Len(q) - 1) |-> MulCoeff(p, q, k - 1) % FieldOrder]
PolynomialGadget_sub_extension(p, q) ==
    [k \in 1..Max(Len(p), Len(q)) |->
        FSub(IF k <= Len(p) THEN p[k] ELSE 0, IF k <= Len(q) THEN q[k] ELSE 0)]
PolynomialGadget_add_extension(p, q) ==
    [k \in 1..Max(Len(p), Len(q)) |->
        FAdd(IF k <= Len(p) THEN p[k] ELSE 0, IF k <= Len(q) THEN q[k] ELSE 0)]
PolynomialGadget_ext_scalar_mul_extension(p, s) ==
    [k \in 1..Len(p) |-> FMul(p[k], s)]
PolynomialGadget_sub_constant_extension(p, s) ==
    [k \in 1..Len(p) |-> FSub(p[k], s)]

\* Polynomial::<i64>::from_biguint_num(num, 16, num_limbs): the first
\* num_limbs little-endian limbs of num
from_biguint_num(num, num_limbs) ==
    [k \in 1..num_limbs |-> (num \div (LIMB ^ (k - 1))) % LIMB]
\* the big integer a limb vector stands for
to_biguint(limbs) == SeqSum([k \in 1..Len(limbs) |-> limbs[k] * LIMB ^ (k - 1)])
to_field_iter(p) == [k \in 1..Len(p) |-> from_canonical(p[k])]
modulus_field_iter ==
    LET limbs == from_biguint_num(modulus_biguint, NB_LIMBS)
    IN  to_field_iter(limbs)

\* Polynomial::root_quotient: the quotient of v by (X - r), by synthetic
\* division from the leading coefficient
RECURSIVE QuotCoeff(_, _, _)
QuotCoeff(v, r, k) ==
    IF k >= Len(v) THEN 0 ELSE v[k + 1] + r * QuotCoeff(v, r, k + 1)
root_quotient(v, r) == [k \in 1..(Len(v) - 1) |-> QuotCoeff(v, r, k)]

\* a slip: the coefficients stored without the offset
extract_witness_unshifted(vanishing_poly, offset) ==
    LET witness_poly == root_quotient(vanishing_poly, LIMB)
    IN  [k \in 1..Len(witness_poly) |-> witness_poly[k] % (LIMB * LIMB)]

\* utils::extract_witness_and_shift: W = V/(X - LIMB), every coefficient
\* shifted by +offset and stored as an unsigned two-limb word
extract_witness_and_shift(vanishing_poly, offset) ==
    LET witness_poly == root_quotient(vanishing_poly, LIMB)
    IN  [k \in 1..Len(witness_poly) |-> (witness_poly[k] + offset) % (LIMB * LIMB)]
\* utils::split_digits: the low and the high limb of every word
split_digits(words) ==
    [low  |-> [k \in 1..Len(words) |-> from_canonical(words[k] % LIMB)],
     high |-> [k \in 1..Len(words) |-> from_canonical((words[k] \div LIMB) % LIMB)]]

----------------------------------------------------------------------------
(* FpMulConst: registers and the instruction *)

\* MemorySlice of a register: columns start+1 .. start+len of a row
MemorySlice(start, len) == [start |-> start, len |-> len]
SliceColumns(slice) == (slice.start + 1)..(slice.start + slice.len)
\* the two registers the caller allocates: a, then result
reg_a == MemorySlice(0, NB_LIMBS)
reg_result == MemorySlice(NB_LIMBS, NB_LIMBS)

\* ChipBuilder::fpmul_const: allocates carry, witness_low and witness_high
\* after the caller's registers and builds the instruction
fpmul_const(a, cc, result) ==
    LET carry == MemorySlice(result.start + result.len, NB_LIMBS)
        witness_low == MemorySlice(carry.start + carry.len, NB_WITNESS_LIMBS)
        witness_high ==
            MemorySlice(witness_low.start + witness_low.len, NB_WITNESS_LIMBS)
    IN  [a |-> a, c |-> cc, result |-> result, carry |-> carry,
         witness_low |-> witness_low, witness_high |-> witness_high]

\* the instruction of the chip under test
ac_ins == fpmul_const(reg_a, c, reg_result)

NUM_ARITHMETIC_COLUMNS == 3 * NB_LIMBS + 2 * NB_WITNESS_LIMBS
\* FpMulConst::num_mul_const_columns: the length of the row vector
num_mul_const_columns == 2 * NB_LIMBS + 2 * NB_WITNESS_LIMBS

\* Register::packed_entries / evaluation_targets: the cells of a register
entries(slice, row) == SubSeq(row, slice.start + 1, slice.start + slice.len)

\* Register::assign: copy value into the register's columns of row row_index
assign(slice, trace_rows, value, row_index) ==
    [trace_rows EXCEPT ![row_index] =
        [col \in 1..Len(@) |->
            IF col \in SliceColumns(slice) /\ (col - slice.start) <= Len(value)
            THEN value[col - slice.start] ELSE @[col]]]

\* Instruction::memory_vec
memory_vec(ins) == <<ins.a, ins.result>>

\* a slip: the two witness slices taken in the other order
assign_row_swapped(ins, trace_rows, row, row_index) ==
    LET s0 == SubSeq(row, 1, NB_LIMBS)
        t1 == assign(ins.result, trace_rows, s0, row_index)
        s1 == SubSeq(row, NB_LIMBS + 1, 2 * NB_LIMBS)
        t2 == assign(ins.carry, t1, s1, row_index)
        s2 == SubSeq(row, 2 * NB_LIMBS + 1, 2 * NB_LIMBS + NB_WITNESS_LIMBS)
        t3 == assign(ins.witness_high, t2, s2, row_index)
        s3 == SubSeq(row, 2 * NB_LIMBS + NB_WITNESS_LIMBS + 1,
                     2 * NB_LIMBS + 2 * NB_WITNESS_LIMBS)
    IN  assign(ins.witness_low, t3, s3, row_index)

\* Instruction::assign_row
assign_row(ins, trace_rows, row, row_index) ==
    LET index0 == 0
        s0 == SubSeq(row, index0 + 1, NB_LIMBS)
        t1 == assign(ins.result, trace_rows, s0, row_index)
        index1 == index0 + NB_LIMBS
        s1 == SubSeq(row, index1 + 1, index1 + NB_LIMBS)
        t2 == assign(ins.carry, t1, s1, row_index)
        index2 == index1 + NB_LIMBS
        s2 == SubSeq(row, index2 + 1, index2 + NB_WITNESS_LIMBS)
        t3 == assign(ins.witness_low, t2, s2, row_index)
        index3 == index2 + NB_WITNESS_LIMBS
        s3 == SubSeq(row, index3 + 1, index3 + NB_WITNESS_LIMBS)
    IN  assign(ins.witness_high, t3, s3, row_index)

\* the columns assign_row writes
assign_row_columns(ins) ==
    SliceColumns(ins.result) \cup SliceColumns(ins.carry)
        \cup SliceColumns(ins.witness_low) \cup SliceColumns(ins.witness_high)

\* the debug assertion of extract_witness_and_shift: every shifted
\* coefficient is a two-limb unsigned word
witness_in_range(vanishing_poly, offset) ==
    LET witness_poly == root_quotient(vanishing_poly, LIMB)
    IN  \A k \in 1..Len(witness_poly) :
            /\ witness_poly[k] + offset >= 0
            /\ witness_poly[k] + offset < LIMB * LIMB

\* a slip: the sum of a and c where the product is meant
trace_row_result_sum(ins, a) == (a + to_biguint(ins.c)) % modulus_biguint

\* trace_row, lines 213-218: c from all the limbs of self.c, and the result
trace_row_result(ins, a) == (a * to_biguint(ins.c)) % modulus_biguint

\* trace_row, line 220: the carry
trace_row_carry(ins, a) ==
    LET cbig == to_biguint(ins.c)
        result == trace_row_result(ins, a)
    IN  (a * cbig - result) \div modulus_biguint

\* a slip: the result polynomial is not subtracted
trace_row_vanishing_poly_no_result(ins, a) ==
    LET p_a == from_biguint_num(a, NB_LIMBS)
        cbig == to_biguint(ins.c)
        p_c == from_biguint_num(cbig, NB_LIMBS)
        p_p == from_biguint_num(modulus_biguint, NB_LIMBS)
        carry == trace_row_carry(ins, a)
        p_carry == from_biguint_num(carry, NB_LIMBS)
        ac == PolyMul(p_a, p_c)
        carry_p == PolyMul(p_carry, p_p)
    IN  PolySub(ac, carry_p)

\* trace_row, lines 224-233: the limb polynomials and the vanishing polynomial
trace_row_vanishing_poly(ins, a) ==
    LET p_a == from_biguint_num(a, NB_LIMBS)
        cbig == to_biguint(ins.c)
        p_c == from_biguint_num(cbig, NB_LIMBS)
        p_p == from_biguint_num(modulus_biguint, NB_LIMBS)
        result == trace_row_result(ins, a)
        carry == trace_row_carry(ins, a)
        p_result == from_biguint_num(result, NB_LIMBS)
        p_carry == from_biguint_num(carry, NB_LIMBS)
        ac == PolyMul(p_a, p_c)
        ac_minus_result == PolySub(ac, p_result)
        carry_p == PolyMul(p_carry, p_p)
    IN  PolySub(ac_minus_result, carry_p)

\* trace_row, lines 219-222 and 234: the debug assertions
trace_row_asserts(ins, a) ==
    LET p == modulus_biguint
        result == trace_row_result(ins, a)
        carry == trace_row_carry(ins, a)
        vanishing_poly == trace_row_vanishing_poly(ins, a)
    IN  /\ result < p
        /\ carry < p
        /\ carry * p = a * to_biguint(ins.c) - result
        /\ degree(vanishing_poly) = NB_WITNESS_LIMBS
        /\ witness_in_range(vanishing_poly, WITNESS_OFFSET)

\* FpMulConst::trace_row, with dbg the build's debug assertions.
\* panic: a debug assertion failed and no row is returned.
trace_row(ins, a, dbg) ==
    LET result == trace_row_result(ins, a)
        p_result == from_biguint_num(result, NB_LIMBS)
        carry == trace_row_carry(ins, a)
        p_carry == from_biguint_num(carry, NB_LIMBS)
        vanishing_poly == trace_row_vanishing_poly(ins, a)
        witness_shifted == extract_witness_and_shift(vanishing_poly, WITNESS_OFFSET)
        digits == split_digits(witness_shifted)
        f_result == to_field_iter(p_result)
        f_carry == to_field_iter(p_carry)
        row == f_result \o f_carry \o digits.low \o digits.high
    IN  IF dbg /\ ~trace_row_asserts(ins, a)
        THEN [panic |-> TRUE, row |-> <<>>, result |-> result]
        ELSE [panic |-> FALSE, row |-> row, result |-> result]

\* TraceHandle::write_field: the limbs of a into the register's columns
write_field(trace_rows, row_index, a, slice) ==
    LET p_a == from_biguint_num(a, NB_LIMBS)
        limbs == to_field_iter(p_a)
    IN  assign(slice, trace_rows, limbs, row_index)

\* TraceHandle::write_fpmul_const
write_fpmul_const(trace_rows, row_index, a, ins, dbg) ==
    LET r == trace_row(ins, a, dbg)
    IN  IF r.panic
        THEN [panic |-> TRUE, trace |-> trace_rows, result |-> -1]
        ELSE [panic |-> FALSE,
              trace |-> assign_row(ins, trace_rows, r.row, row_index),
              result |-> r.result]

\* packed_generic_constraints, lines 102-122: the expected vanishing
\* polynomial A*C - R - Carry*P over the packed field
packed_vanishing_poly(ins, local) ==
    LET a == entries(ins.a, local)
        cc == [k \in 1..NB_LIMBS |-> from_canonical(ins.c[k])]
        result == entries(ins.result, local)
        carry == entries(ins.carry, local)
        ac == PolynomialOps_mul(a, cc)
        ac_minus_result == PolynomialOps_sub(ac, result)
        p_limbs == modulus_field_iter
        mul_times_carry == PolynomialOps_scalar_poly_mul(carry, p_limbs)
    IN  PolynomialOps_sub(ac_minus_result, mul_times_carry)

\* a slip: the witness is not multiplied by (X - LIMB)
packed_witness_unrooted(ins, local) ==
    LET witness_low == entries(ins.witness_low, local)
        witness_high == entries(ins.witness_high, local)
        limb == from_canonical(LIMB)
        offset == from_canonical(WITNESS_OFFSET)
    IN  [k \in 1..Min(Len(witness_low), Len(witness_high)) |->
            FSub(FAdd(witness_low[k], FMul(witness_high[k], limb)), offset)]

\* packed_generic_constraints, lines 124-138: the witness, shifted back and
\* multiplied by (X - LIMB)
packed_witness_times_root(ins, local) ==
    LET witness_low == entries(ins.witness_low, local)
        witness_high == entries(ins.witness_high, local)
        limb == from_canonical(LIMB)
        w_shifted ==
            [k \in 1..Min(Len(witness_low), Len(witness_high)) |->
                FAdd(witness_low[k], FMul(witness_high[k], limb))]
        offset == from_canonical(WITNESS_OFFSET)
        w == [k \in 1..Len(w_shifted) |-> FSub(w_shifted[k], offset)]
        root_monomial == <<FNeg(limb), 1>>
    IN  PolynomialOps_mul(w, root_monomial)

\* FpMulConst::packed_generic_constraints: the residues at a row, one per
\* coefficient of the vanishing polynomial
packed_generic_constraints(ins, local) ==
    LET vanishing_poly == packed_vanishing_poly(ins, local)
        witness_times_root == packed_witness_times_root(ins, local)
    IN  [k \in 1..Len(vanishing_poly) |->
            FSub(vanishing_poly[k], witness_times_root[k])]

\* ext_circuit_constraints, lines 152-176: the vanishing polynomial built
\* from circuit targets
ext_vanishing_poly(ins, local) ==
    LET a == entries(ins.a, local)
        c_vec == [k \in 1..NB_LIMBS |-> from_canonical(ins.c[k])]
        result == entries(ins.result, local)
        carry == entries(ins.carry, local)
        ac == PolynomialGadget_mul_extension(a, c_vec)
        ac_minus_result == PolynomialGadget_sub_extension(ac, result)
        p_limbs == modulus_field_iter
        mul_times_carry == PolynomialGadget_mul_extension(carry, p_limbs)
    IN  PolynomialGadget_sub_extension(ac_minus_result, mul_times_carry)

\* a slip in the circuit backend: the offset is added back instead of
\* subtracted
ext_witness_times_root_plus_offset(ins, local) ==
    LET witness_low == entries(ins.witness_low, local)
        witness_high == entries(ins.witness_high, local)
        limb_const == from_canonical(2 ^ LimbBits)
        w_high_times_limb ==
            PolynomialGadget_ext_scalar_mul_extension(witness_high, limb_const)
        w_shifted == PolynomialGadget_add_extension(witness_low, w_high_times_limb)
        offset == from_canonical(WITNESS_OFFSET)
        w == PolynomialGadget_sub_constant_extension(w_shifted, FNeg(offset))
        root_monomial == <<FNeg(limb_const), 1>>
    IN  PolynomialGadget_mul_extension(w, root_monomial)

\* ext_circuit_constraints, lines 178-194: the witness, shifted back and
\* multiplied by (X - LIMB)
ext_witness_times_root(ins, local) ==
    LET witness_low == entries(ins.witness_low, local)
        witness_high == entries(ins.witness_high, local)
        limb_const == from_canonical(2 ^ LimbBits)
        w_high_times_limb ==
            PolynomialGadget_ext_scalar_mul_extension(witness_high, limb_const)
        w_shifted == PolynomialGadget_add_extension(witness_low, w_high_times_limb)
        offset == from_canonical(WITNESS_OFFSET)
        w == PolynomialGadget_sub_constant_extension(w_shifted, offset)
        root_monomial == <<FNeg(limb_const), 1>>
    IN  PolynomialGadget_mul_extension(w, root_monomial)

\* FpMulConst::ext_circuit_constraints: the residues the circuit computes
ext_circuit_constraints(ins, local) ==
    LET vanishing_poly == ext_vanishing_poly(ins, local)
        witness_times_root == ext_witness_times_root(ins, local)
    IN  PolynomialGadget_sub_extension(vanishing_poly, witness_times_root)

----------------------------------------------------------------------------
(* FpMulConst: the row-writing loop of test_fpmul_const *)

\* limb values a constant is built from
CLimbs == {0, 2, LIMB - 1}
\* the constants: any limb below NB_LIMBS, 0 or 1 above
ConstSet ==
    {cc \in [1..MAX_NB_LIMBS -> CLimbs \cup {1}] :
        \A k \in 1..MAX_NB_LIMBS :
            IF k <= NB_LIMBS THEN cc[k] \in CLimbs ELSE cc[k] \in {0, 1}}
\* the inputs a: small, around p (reduced or not), and the largest value
AVals ==
    (0..ALow)
        \cup ((modulus_biguint - AWin)..(modulus_biguint + AWin))
        \cup {LIMB ^ NB_LIMBS - 1}

ZeroRow == [col \in 1..NUM_ARITHMETIC_COLUMNS |-> 0]

\* the chip after build, before the first row is written
MulBuilt ==
    /\ c \in ConstSet
    /\ trace = [r \in 1..num_rows |-> ZeroRow]
    /\ i = 0
    /\ status = "running"
    /\ a_int = -1
    /\ res = -1

EvalIdle ==
    /\ ev_row = <<>>
    /\ ev_tampered = FALSE
    /\ ev_packed = <<>>
    /\ ev_ext = <<>>

\* the chip of the other specifications, built and left alone
MulIdle ==
    /\ MulBuilt
    /\ c = [k \in 1..MAX_NB_LIMBS |-> 0]
    /\ debug_assertions = FALSE

ByteIdle ==
    /\ byte_ins = <<>>
    /\ byte_data = <<>>
    /\ byte_written = {}
    /\ byte_call = <<>>

FillIdle ==
    /\ air_data = <<>>
    /\ writer_data = <<>>
    /\ fill_input = <<>>
    /\ chunk_size = 0
    /\ fill_phase = "idle"
    /\ chunk_i = <<>>
    /\ cell_writes = <<>>
    /\ worker_log = <<>>

S1Idle ==
    /\ s1_a = 0
    /\ s1_row = <<>>
    /\ s1_res = <<>>
    /\ s1_residues = <<>>

BlakeIdle ==
    /\ msgs = <<>>
    /\ msg_next = 0
    /\ input_values = <<>>
    /\ round = 0
    /\ current_state = <<>>
    /\ write_log = <<>>
    /\ blake_pc = "idle"

MulInit ==
    /\ MulBuilt
    /\ debug_assertions \in BOOLEAN
    /\ EvalIdle
    /\ ByteIdle
    /\ FillIdle
    /\ S1Idle
    /\ BlakeIdle

\* one iteration of the loop: write_field, then write_fpmul_const
WriteRow(a) ==
    /\ status = "running"
    /\ i < num_rows
    /\ LET t1 == write_field(trace, i + 1, a, reg_a)
           w == write_fpmul_const(t1, i + 1, a, ac_ins, debug_assertions)
       IN  /\ trace' = w.trace
           /\ res' = w.result
           /\ status' = IF w.panic THEN "panicked" ELSE "running"
           /\ i' = IF w.panic THEN i ELSE i + 1
    /\ a_int' = a
    /\ UNCHANGED <<c, debug_assertions>>

\* the loop ends: drop(handle), generate_trace
GenerateTrace ==
    /\ status = "running"
    /\ i = num_rows
    /\ status' = "done"
    /\ UNCHANGED <<c, debug_assertions, trace, i, a_int, res>>

MulNext ==
    \/ (\E a \in AVals : WriteRow(a)) /\ UNCHANGED <<evalVars, byteVars, fillVars, s1Vars, blakeVars>>
    \/ GenerateTrace /\ UNCHANGED <<evalVars, byteVars, fillVars, s1Vars, blakeVars>>

SpecMul == MulInit /\ [][MulNext]_vars

----------------------------------------------------------------------------
(* FpMulConst: the two constraint backends evaluated on one row *)

\* the inputs a of the evaluated row
EvalAVals == {0, 1, modulus_biguint - 1, modulus_biguint}
\* the values a cell is overwritten with
TamperVals == {0, 1, FieldOrder - 1}

\* the one-row trace a release build writes for a
FilledRow(a) ==
    LET t1 == write_field(<<ZeroRow>>, 1, a, reg_a)
        w == write_fpmul_const(t1, 1, a, ac_ins, FALSE)
    IN  w.trace

EvalInit ==
    /\ MulBuilt
    /\ debug_assertions = FALSE
    /\ EvalIdle
    /\ ByteIdle
    /\ FillIdle
    /\ S1Idle
    /\ BlakeIdle

\* the writer fills the row for a
FillRow(a) ==
    /\ ev_row = <<>>
    /\ ev_row' = FilledRow(a)
    /\ UNCHANGED <<ev_tampered, ev_packed, ev_ext>>

\* a cell of the row is overwritten before the constraints are evaluated
Tamper(col, v) ==
    /\ ev_row # <<>>
    /\ ~ev_tampered
    /\ ev_packed = <<>> /\ ev_ext = <<>>
    /\ ev_row[1][col] # v
    /\ ev_row' = [ev_row EXCEPT ![1][col] = v]
    /\ ev_tampered' = TRUE
    /\ UNCHANGED <<ev_packed, ev_ext>>

\* the prover evaluates the constraints with the packed parser
EvalPacked ==
    /\ ev_row # <<>>
    /\ ev_packed = <<>>
    /\ ev_packed' = packed_generic_constraints(ac_ins, ev_row[1])
    /\ UNCHANGED <<ev_row, ev_tampered, ev_ext>>

\* the recursive verifier evaluates the constraints in the circuit
EvalExt ==
    /\ ev_row # <<>>
    /\ ev_ext = <<>>
    /\ ev_ext' = ext_circuit_constraints(ac_ins, ev_row[1])
    /\ UNCHANGED <<ev_row, ev_tampered, ev_packed>>

EvalNext ==
    \/ (\E a \in EvalAVals : FillRow(a)) /\ UNCHANGED <<mulVars, byteVars, fillVars, s1Vars, blakeVars>>
    \/ (\E col \in 1..NUM_ARITHMETIC_COLUMNS : \E v \in TamperVals : Tamper(col, v))
           /\ UNCHANGED <<mulVars, byteVars, fillVars, s1Vars, blakeVars>>
    \/ EvalPacked /\ UNCHANGED <<mulVars, byteVars, fillVars, s1Vars, blakeVars>>
    \/ EvalExt /\ UNCHANGED <<mulVars, byteVars, fillVars, s1Vars, blakeVars>>

SpecEval == EvalInit /\ [][EvalNext]_vars

----------------------------------------------------------------------------
(* FpMulConst: properties *)

p == modulus_biguint
\* the limbs of c at index >= NB_LIMBS are zero
HighLimbsZero(cc) == \A k \in (NB_LIMBS + 1)..MAX_NB_LIMBS : cc[k] = 0
\* the same constant with the limbs at index >= NB_LIMBS cleared
LowLimbs(cc) == [k \in 1..MAX_NB_LIMBS |-> IF k <= NB_LIMBS THEN cc[k] ELSE 0]
\* the rows the loop has completed
WrittenRows == 1..i
\* the big integer held by a register of a row
Decode(slice, row) == to_biguint(entries(slice, row))
AllZero(s) == \A k \in 1..Len(s) : s[k] = 0

\* C1: for a in [0,p) and a constant c whose limbs at index >= NB_LIMBS are
\* zero, every constraint packed_generic_constraints emits (one per
\* coefficient of A*C - R - Carry*P) evaluates to zero on the row trace_row
\* produced for a.
C1_ConstraintsVanish ==
    HighLimbsZero(c) =>
        \A r \in WrittenRows :
            Decode(reg_a, trace[r]) < p =>
                LET residues == packed_generic_constraints(ac_ins, trace[r])
                IN  /\ Len(residues) = 2 * NB_LIMBS - 1
                    /\ AllZero(residues)

\* a written row with a reduced a, a non-zero carry and a result that wrapped
C1_Witness ==
    /\ HighLimbsZero(c)
    /\ i >= 1
    /\ Decode(reg_a, trace[1]) < p
    /\ Decode(reg_a, trace[1]) * to_biguint(c) > p
    /\ Decode(ac_ins.carry, trace[1]) > 0
    /\ AllZero(packed_generic_constraints(ac_ins, trace[1]))

C7_ModulusCheckAborts ==
    (a_int >= 0 /\ ~(trace_row_result(ac_ins, a_int) < p
                     /\ trace_row_carry(ac_ins, a_int) < p))
        => (status = "panicked" /\ res = -1)

\* C8: the row written for a under the constant c is the row trace_row
\* produces under the constant that agrees with c on the limbs below
\* NB_LIMBS and is zero above, and both give the constraints the same C(X).
C8_OnlyLowLimbsConsumed ==
    \A r \in WrittenRows :
        LET a == Decode(reg_a, trace[r])
            low == [ac_ins EXCEPT !.c = LowLimbs(c)]
        IN  /\ SubSeq(trace[r], NB_LIMBS + 1, NUM_ARITHMETIC_COLUMNS)
                  = trace_row(low, a, FALSE).row
            /\ \A row \in {trace[r], ZeroRow} :
                  packed_generic_constraints(ac_ins, row)
                      = packed_generic_constraints(low, row)

\* C9: every column assign_row has written is inside a slice of memory_vec.
C9_FootprintCoversWrites ==
    i >= 1 =>
        \A col \in assign_row_columns(ac_ins) :
            \E k \in 1..Len(memory_vec(ac_ins)) :
                col \in SliceColumns(memory_vec(ac_ins)[k])

\* C10: on every assignment of the row, ext_circuit_constraints emits as
\* many constraints as packed_generic_constraints and its k-th constraint
\* has the value of the k-th packed residue, so both accept the same rows.
C10_BackendsAgree ==
    (ev_packed # <<>> /\ ev_ext # <<>>) =>
        /\ Len(ev_ext) = Len(ev_packed)
        /\ \A k \in 1..Len(ev_packed) : ev_ext[k] = ev_packed[k]
        /\ AllZero(ev_ext) <=> AllZero(ev_packed)

\* both backends have evaluated a row with an overwritten cell and reject it
C10_Witness ==
    /\ ev_tampered
    /\ ev_packed # <<>> /\ ev_ext # <<>>
    /\ ~AllZero(ev_packed)
    /\ ~AllZero(ev_ext)

\* C13: for a in [0,p) and a constant below LIMB^NB_LIMBS, every coefficient
\* of W = V/(X - LIMB) plus WITNESS_OFFSET is in [0, LIMB^2), the cells of
\* witness_low and witness_high are digits below LIMB, and
\* low + LIMB*high - WITNESS_OFFSET is the coefficient.
C13_WitnessDigits ==
    HighLimbsZero(c) =>
        \A r \in WrittenRows :
            LET a == Decode(reg_a, trace[r])
                vanishing_poly == trace_row_vanishing_poly(ac_ins, a)
                witness_poly == root_quotient(vanishing_poly, LIMB)
                low == entries(ac_ins.witness_low, trace[r])
                high == entries(ac_ins.witness_high, trace[r])
            IN  a < p =>
                  /\ Len(witness_poly) = NB_WITNESS_LIMBS
                  /\ PolyMul(witness_poly, <<0 - LIMB, 1>>) = vanishing_poly
                  /\ \A k \in 1..NB_WITNESS_LIMBS :
                        /\ witness_poly[k] + WITNESS_OFFSET >= 0
                        /\ witness_poly[k] + WITNESS_OFFSET < LIMB * LIMB
                        /\ low[k] \in 0..(LIMB - 1)
                        /\ high[k] \in 0..(LIMB - 1)
                        /\ low[k] + LIMB * high[k] - WITNESS_OFFSET = witness_poly[k]

\* a written row with a reduced a whose witness has a negative coefficient
\* and a shifted coefficient with a non-zero high digit
C13_Witness ==
    /\ HighLimbsZero(c)
    /\ i >= 1
    /\ Decode(reg_a, trace[1]) < p
    /\ LET witness_poly ==
               root_quotient(
                   trace_row_vanishing_poly(ac_ins, Decode(reg_a, trace[1])), LIMB)
       IN  \E k \in 1..NB_WITNESS_LIMBS : witness_poly[k] < 0
    /\ \E k \in 1..NB_WITNESS_LIMBS : entries(ac_ins.witness_high, trace[1])[k] > 0
    /\ \E k \in 1..NB_WITNESS_LIMBS : entries(ac_ins.witness_low, trace[1])[k] > 0

C17_OneConstraintPerCoefficient ==
    ev_row # <<>> =>
        LET vanishing_poly == packed_vanishing_poly(ac_ins, ev_row[1])
            witness_times_root == packed_witness_times_root(ac_ins, ev_row[1])
        IN  /\ Len(vanishing_poly) = 2 * NB_LIMBS - 1
            /\ Len(entries(ac_ins.witness_low, ev_row[1])) = NB_WITNESS_LIMBS
            /\ Len(entries(ac_ins.witness_high, ev_row[1])) = NB_WITNESS_LIMBS
            /\ Len(witness_times_root) = NB_WITNESS_LIMBS + 1
            /\ Len(vanishing_poly) = Len(witness_times_root)
            /\ ~ev_tampered =>
                  degree(trace_row_vanishing_poly(ac_ins, Decode(reg_a, ev_row[1])))
                      = NB_WITNESS_LIMBS
            /\ ev_packed # <<>> =>
                  /\ Len(ev_packed) = Len(vanishing_poly)
                  /\ \A k \in 1..Len(vanishing_poly) :
                        ev_packed[k] = FSub(vanishing_poly[k], witness_times_root[k])

\* the constraints were evaluated on the row written for a = 0
C17_Witness ==
    /\ ev_row # <<>>
    /\ ~ev_tampered
    /\ Decode(reg_a, ev_row[1]) = 0
    /\ to_biguint(c) > 0
    /\ Len(ev_packed) = 2 * NB_LIMBS - 1
    /\ AllZero(ev_packed)

----------------------------------------------------------------------------
(* ByteOperationInstruction: bytes, operations and the lookup digest *)

BYTE == 2 ^ ByteBits
\* the values of a u32: four bytes
U32 == BYTE ^ 4
OPCODE_AND == 1
OPCODE_XOR == 2
OPCODE_NOT == 3
ByteKinds == {"AND", "XOR", "NOT"}

Bit(x, k) == (x \div 2 ^ k) % 2
ByteAnd(x, y) == SeqSum([k \in 1..ByteBits |-> Bit(x, k - 1) * Bit(y, k - 1) * 2 ^ (k - 1)])
ByteXor(x, y) ==
    SeqSum([k \in 1..ByteBits |-> ((Bit(x, k - 1) + Bit(y, k - 1)) % 2) * 2 ^ (k - 1)])
ByteNot(x) == BYTE - 1 - x

opcode(kind) ==
    CASE kind = "AND" -> OPCODE_AND
      [] kind = "XOR" -> OPCODE_XOR
      [] kind = "NOT" -> OPCODE_NOT

\* the result byte of an operation on operand values
byte_result(kind, x, y) ==
    CASE kind = "AND" -> ByteAnd(x, y)
      [] kind = "XOR" -> ByteXor(x, y)
      [] kind = "NOT" -> ByteNot(x)

\* ByteOperation<u8>::lookup_digest_value: the bytes of the operation packed
\* into a u32, opcode in the low byte
lookup_digest_value(value) ==
    IF value.kind = "NOT"
    THEN (opcode(value.kind) + BYTE * value.a + BYTE ^ 2 * value.result) % U32
    ELSE (opcode(value.kind) + BYTE * value.a + BYTE ^ 2 * value.b
              + BYTE ^ 3 * value.result) % U32

from_canonical_u32(n) == n % FieldOrder

\* Option<usize>
None == <<>>
Some(r) == <<r>>

\* a register: its region and its column (index in the public vector)
Register(region, index) == [region |-> region, index |-> index]
\* the cell a register names at a row; a public register has one cell
Cell(reg, row) ==
    IF reg.region = "public" THEN <<"public", 0, reg.index>>
    ELSE <<"local", row, reg.index>>
read(data, reg, row) ==
    IF reg.region = "public" THEN data.public[reg.index]
    ELSE data.trace[row + 1][reg.index]
write_register(data, reg, value, row) ==
    IF reg.region = "public" THEN [data EXCEPT !.public[reg.index] = value]
    ELSE [data EXCEPT !.trace[row + 1][reg.index] = value]

\* ByteOperation<ByteRegister>::write: read the operands at the row, write
\* the result byte, return the operation on values
ByteOperation_write(inner, data, row) ==
    LET x == read(data, inner.a, row)
        y == IF inner.kind = "NOT" THEN 0 ELSE read(data, inner.b, row)
        z == byte_result(inner.kind, x, y)
    IN  [value |-> [kind |-> inner.kind, a |-> x, b |-> y, result |-> z],
         data |-> write_register(data, inner.result, z, row),
         cells |-> <<Cell(inner.result, row)>>]

\* ByteOperation::lookup_digest_constraint: digest - (the operation's
\* registers packed like lookup_digest_value), over the field
lookup_digest_constraint(inner, digest, data, row) ==
    LET x == read(data, inner.a, row)
        z == read(data, inner.result, row)
        packed ==
            IF inner.kind = "NOT"
            THEN FAdd(from_canonical(opcode(inner.kind)),
                      FAdd(FMul(BYTE, x), FMul(BYTE ^ 2, z)))
            ELSE FAdd(from_canonical(opcode(inner.kind)),
                      FAdd(FMul(BYTE, x),
                           FAdd(FMul(BYTE ^ 2, read(data, inner.b, row)),
                                FMul(BYTE ^ 3, z))))
    IN  FSub(read(data, digest, row), packed)

\* AirConstraint::eval
eval(ins, data, row) == lookup_digest_constraint(ins.inner, ins.digest, data, row)

ByteOperationInstruction_new(inner, digest, global) ==
    [inner |-> inner, digest |-> digest, global |-> global]

\* a call that returned without writing
Returned(data) == [data |-> data, cells |-> <<>>]

\* a slip: the early return taken without looking at the global flag
write_returns_any_instruction(ins, row_index) == row_index # 0
write_returns_never(ins, row_index) == FALSE
\* Instruction::write: the early return
write_returns(ins, row_index) == ins.global /\ row_index # 0

digest_of_operands(value) ==
    from_canonical_u32(lookup_digest_value([value EXCEPT !.result = 0]))
\* the digest both writers compute from the value inner.write returned
digest_of(value) == from_canonical_u32(lookup_digest_value(value))

\* Instruction::write(writer, row_index)
write(ins, data, row_index) ==
    IF write_returns(ins, row_index) THEN Returned(data)
    ELSE LET w == ByteOperation_write(ins.inner, data, row_index)
             digest == digest_of(w.value)
         IN  [data |-> write_register(w.data, ins.digest, digest, row_index),
              cells |-> Append(w.cells, Cell(ins.digest, row_index))]

write_to_air_returns_never(ins, row_index) == FALSE
\* Instruction::write_to_air: the early return
write_to_air_returns(ins, row_index) ==
    /\ row_index # None
    /\ ins.global
    /\ row_index[1] # 0

\* the row an AirWriter writes local registers at (a writer without a row
\* index writes the public section only)
writer_row(row_index) == IF row_index = None THEN 0 ELSE row_index[1]

\* Instruction::write_to_air(writer), writer.row_index() = row_index
write_to_air(ins, data, row_index) ==
    IF write_to_air_returns(ins, row_index) THEN Returned(data)
    ELSE LET row == writer_row(row_index)
             w == ByteOperation_write(ins.inner, data, row)
             digest == digest_of(w.value)
         IN  [data |-> write_register(w.data, ins.digest, digest, row),
              cells |-> Append(w.cells, Cell(ins.digest, row))]

----------------------------------------------------------------------------
(* ByteOperationInstruction: one instruction called through both writers *)

Range(s) == {s[k] : k \in 1..Len(s)}
\* operand bytes the rows hold before the instruction is written
ByteVals == {0, 1, BYTE - 2, BYTE - 1}
\* columns of the operation: a, b, result, digest
OperandRows == {<<x, y, 0, 0>> : x \in ByteVals, y \in ByteVals}
BlankRow == <<0, 0, 0, 0>>
\* the operation allocated in one region
byte_operation(kind, region, base) ==
    [kind |-> kind, a |-> Register(region, base + 1), b |-> Register(region, base + 2),
     result |-> Register(region, base + 3)]
NoCall == [api |-> "none", row_index |-> None, cells |-> <<>>]

\* a per-row operation lives in the trace; a global one in the trace or in
\* the public section
ByteBuilt ==
    /\ \E kind \in ByteKinds : \E global \in BOOLEAN :
         \E region \in (IF global THEN {"local", "public"} ELSE {"local"}) :
            /\ byte_ins = ByteOperationInstruction_new(
                              byte_operation(kind, region, 0), Register(region, 4), global)
            /\ IF region = "local"
               THEN byte_data \in {[trace |-> t, public |-> BlankRow] :
                                       t \in [1..num_rows -> OperandRows]}
               ELSE byte_data \in {[trace |-> [r \in 1..num_rows |-> BlankRow],
                                     public |-> pv] : pv \in OperandRows}
    /\ byte_written = {}
    /\ byte_call = NoCall

ByteInit ==
    /\ MulIdle
    /\ EvalIdle
    /\ FillIdle
    /\ S1Idle
    /\ BlakeIdle
    /\ ByteBuilt

\* the legacy writer calls write(writer, row_index)
CallWrite(row_index) ==
    LET w == write(byte_ins, byte_data, row_index)
    IN  /\ byte_data' = w.data
        /\ byte_written' = byte_written \cup Range(w.cells)
        /\ byte_call' = [api |-> "write", row_index |-> Some(row_index),
                         cells |-> w.cells]
        /\ UNCHANGED byte_ins

\* an AirWriter calls write_to_air: a window writer of a row, or the public
\* writer (no row index) for registers of the public section
CallWriteToAir(row_index) ==
    /\ row_index = None => byte_ins.digest.region = "public"
    /\ LET w == write_to_air(byte_ins, byte_data, row_index)
       IN  /\ byte_data' = w.data
           /\ byte_written' = byte_written \cup Range(w.cells)
           /\ byte_call' = [api |-> "write_to_air", row_index |-> row_index,
                            cells |-> w.cells]
           /\ UNCHANGED byte_ins

ByteNext ==
    \/ (\E r \in 0..(num_rows - 1) : CallWrite(r)) /\ UNCHANGED <<mulVars, evalVars, fillVars, s1Vars, blakeVars>>
    \/ (\E r \in 0..(num_rows - 1) : CallWriteToAir(Some(r)))
           /\ UNCHANGED <<mulVars, evalVars, fillVars, s1Vars, blakeVars>>
    \/ CallWriteToAir(None) /\ UNCHANGED <<mulVars, evalVars, fillVars, s1Vars, blakeVars>>

SpecByte == ByteInit /\ [][ByteNext]_vars

----------------------------------------------------------------------------
(* ByteOperationInstruction: properties *)

\* the call is one of a global instruction at a row r > 0
GlobalAtLaterRow(call) ==
    /\ byte_ins.global
    /\ call.row_index # None
    /\ call.row_index[1] > 0

\* C3: a call of write or write_to_air on a global instruction at a row
\* r > 0 writes no cell and leaves the trace matrix and the public section
\* as they were, and every cell a global instruction has written is at row 0.
C3_GlobalLaterRowNoOp ==
    /\ [][GlobalAtLaterRow(byte_call') =>
            /\ byte_call'.cells = <<>>
            /\ byte_data' = byte_data
            /\ byte_written' = byte_written]_vars
    /\ [](byte_ins.global => \A cell \in byte_written : cell[2] = 0)

\* a global XOR whose row 0 is populated has then been called at row 1,
\* through write_to_air, and row 1 still holds no result and no digest
C3_Witness ==
    /\ byte_ins.global
    /\ byte_ins.inner.kind = "XOR"
    /\ byte_ins.digest.region = "local"
    /\ byte_call.api = "write_to_air"
    /\ byte_call.row_index = Some(1)
    /\ byte_call.cells = <<>>
    /\ Cell(byte_ins.digest, 0) \in byte_written
    /\ byte_data.trace[1][3] = BYTE - 1
    /\ byte_data.trace[2][1] # byte_data.trace[2][2]
    /\ byte_data.trace[2][3] = 0
    /\ byte_data.trace[2][4] = 0

\* the bytes of a u32, low byte first
digest_bytes(d) ==
    <<d % BYTE, (d \div BYTE) % BYTE, (d \div BYTE ^ 2) % BYTE, d \div BYTE ^ 3>>
\* the result byte, bit by bit
IsResult(kind, x, y, z) ==
    /\ z \in 0..(BYTE - 1)
    /\ \A k \in 0..(ByteBits - 1) :
          CASE kind = "AND" -> (Bit(z, k) = 1) <=> (Bit(x, k) = 1 /\ Bit(y, k) = 1)
            [] kind = "XOR" -> (Bit(z, k) = 1) <=> (Bit(x, k) # Bit(y, k))
            [] kind = "NOT" -> Bit(z, k) # Bit(x, k)

\* C4: a call that writes a row (a per-row instruction at any row, a global
\* one at row 0 or through the public writer) writes the result cell and
\* then the digest cell; the result is the operation on the operands of the
\* row, the digest cell is a u32 whose bytes are the opcode, the operands and
\* that result, and the constraint eval emits is zero on the row.
C4_DigestAgrees ==
    byte_call.api # "none" =>
        LET row == writer_row(byte_call.row_index)
            kind == byte_ins.inner.kind
            x == read(byte_data, byte_ins.inner.a, row)
            y == read(byte_data, byte_ins.inner.b, row)
            z == read(byte_data, byte_ins.inner.result, row)
            d == read(byte_data, byte_ins.digest, row)
        IN  (~byte_ins.global \/ row = 0) =>
              /\ byte_call.cells
                     = <<Cell(byte_ins.inner.result, row), Cell(byte_ins.digest, row)>>
              /\ IsResult(kind, x, y, z)
              /\ d < U32 /\ U32 <= FieldOrder
              /\ digest_bytes(d)
                     = IF kind = "NOT" THEN <<opcode(kind), x, z, 0>>
                       ELSE <<opcode(kind), x, y, z>>
              /\ eval(byte_ins, byte_data, row) = 0

\* a per-row AND was written at row 1 by write: both operands and the
\* result are non-zero and the digest has a non-zero high byte
C4_Witness ==
    /\ ~byte_ins.global
    /\ byte_ins.inner.kind = "AND"
    /\ byte_call.api = "write"
    /\ byte_call.row_index = Some(1)
    /\ byte_call.cells = <<<<"local", 1, 3>>, <<"local", 1, 4>>>>
    /\ byte_data.trace[2][3] = BYTE - 2
    /\ byte_data.trace[2][1] # byte_data.trace[2][2]
    /\ byte_data.trace[2][4] >= BYTE ^ 3
    /\ eval(byte_ins, byte_data, 1) = 0

\* C15: at every row r, write(writer, r) and write_to_air of a writer at
\* row r write the same cells with the same values, or both write nothing;
\* write_to_air of a writer without a row writes the result and the digest
\* also when the instruction is global.
C15_SurfacesAgree ==
    /\ \A r \in 0..(num_rows - 1) :
          LET legacy == write(byte_ins, byte_data, r)
              air == write_to_air(byte_ins, byte_data, Some(r))
          IN  /\ legacy = air
              /\ (legacy.cells = <<>>) <=> (byte_ins.global /\ r # 0)
              /\ legacy.cells # <<>> =>
                    legacy.cells = <<Cell(byte_ins.inner.result, r), Cell(byte_ins.digest, r)>>
    /\ byte_ins.digest.region = "public" =>
          write_to_air(byte_ins, byte_data, None).cells
              = <<Cell(byte_ins.inner.result, 0), Cell(byte_ins.digest, 0)>>
    /\ (byte_call.api = "write_to_air" /\ byte_call.row_index = None) =>
          byte_call.cells = <<Cell(byte_ins.inner.result, 0), Cell(byte_ins.digest, 0)>>

\* a global instruction of the public section was written by a writer
\* without a row: result and digest are written
C15_Witness ==
    /\ byte_ins.global
    /\ byte_ins.digest.region = "public"
    /\ byte_call.api = "write_to_air"
    /\ byte_call.row_index = None
    /\ byte_call.cells = <<<<"public", 0, 3>>, <<"public", 0, 4>>>>
    /\ byte_data.public[4] # 0
    /\ write(byte_ins, byte_data, 1).cells = <<>>

----------------------------------------------------------------------------
(* The witness driver of test_blake2b: global instructions, then the rows *)

\* rows of the trace (2^k in the source)
blake_num_rows == 8
\* the numbers of chunks the row range is split into
WorkerCounts == {1, 2, 4, 8}
\* columns of a row and entries of the public section
LocalCols == 8
PublicCols == 4
\* the worker of write_global_instructions; chunk k is filled by worker k + 1
MainWorker == 0

AllCells ==
    {<<"local", r, col>> : r \in 0..(blake_num_rows - 1), col \in 1..LocalCols}
        \cup {<<"public", 0, k>> : k \in 1..PublicCols}

\* a per-row operation on the columns 1..4
per_row_op(kind) ==
    ByteOperationInstruction_new(byte_operation(kind, "local", 0),
                                 Register("local", 4), FALSE)
\* a global operation registered with the per-row instructions, on the
\* columns 5..8: the writer skips it on every row but row 0
tagged_global_op ==
    ByteOperationInstruction_new(byte_operation("XOR", "local", 4),
                                 Register("local", 8), TRUE)
\* a global operation of the public section, registered with the global
\* instructions
public_global_op ==
    ByteOperationInstruction_new(byte_operation("XOR", "public", 0),
                                 Register("public", 4), TRUE)

AirData(kind, tagged) ==
    [instructions |-> IF tagged THEN <<tagged_global_op, per_row_op(kind)>>
                      ELSE <<per_row_op(kind)>>,
     global_instructions |-> <<public_global_op>>]

\* AirWriterData::new and the input writes: the operand bytes of every row
\* and of the public section
InputData(x, y) ==
    [trace |-> [r \in 1..blake_num_rows |->
                   <<(x + r - 1) % BYTE, (y + 3 * (r - 1)) % BYTE, 0, 0, y, x, 0, 0>>],
     public |-> <<x, y, 0, 0>>]

\* write_to_air of every instruction of a list, in the order of the list
RECURSIVE write_all(_, _, _)
write_all(list, row_index, acc) ==
    IF list = <<>> THEN acc
    ELSE LET ins == Head(list)
             w == write_to_air(ins, acc.data, row_index)
         IN  write_all(Tail(list), row_index,
                 [data |-> w.data,
                  cells |-> acc.cells \o w.cells,
                  calls |-> Append(acc.calls,
                                   [digest |-> ins.digest, row_index |-> row_index])])

write_global_instructions(air, data, row_index) ==
    write_all(air.global_instructions, row_index,
              [data |-> data, cells |-> <<>>, calls |-> <<>>])
write_trace_instructions(air, data, row_index) ==
    write_all(air.instructions, row_index,
              [data |-> data, cells |-> <<>>, calls |-> <<>>])

\* writer_data.public_writer(): a writer without a row index
public_writer == None
\* chunk.window_writer(i) of chunk k: the writer of row i of the chunk
window_writer(k, size, row) == Some(k * size + row)

loop_skip(n) == n + 2
\* for i in 0..num_rows: the next i
loop_next(n) == n + 1

RECURSIVE record_writes(_, _, _)
record_writes(writes, cells, worker) ==
    IF cells = <<>> THEN writes
    ELSE record_writes([writes EXCEPT ![Head(cells)] = Append(@, worker)],
                       Tail(cells), worker)

FillBuilt ==
    /\ \E kind \in ByteKinds : \E tagged \in BOOLEAN : air_data = AirData(kind, tagged)
    /\ \E x \in ByteVals : \E y \in ByteVals : writer_data = InputData(x, y)
    /\ fill_input = writer_data
    /\ \E n \in WorkerCounts : chunk_size = blake_num_rows \div n
    /\ fill_phase = "global"
    /\ chunk_i = [k \in 0..(blake_num_rows \div chunk_size - 1) |-> 0]
    /\ cell_writes = [cell \in AllCells |-> <<>>]
    /\ worker_log = [w \in 0..(blake_num_rows \div chunk_size) |-> <<>>]

FillInit ==
    /\ MulIdle
    /\ EvalIdle
    /\ ByteIdle
    /\ S1Idle
    /\ BlakeIdle
    /\ FillBuilt

\* stark.air_data.write_global_instructions(&mut writer), the public writer
WriteGlobalInstructions ==
    /\ fill_phase = "global"
    /\ LET w == write_global_instructions(air_data, writer_data, public_writer)
       IN  /\ writer_data' = w.data
           /\ cell_writes' = record_writes(cell_writes, w.cells, MainWorker)
           /\ worker_log' = [worker_log EXCEPT ![MainWorker] = @ \o w.calls]
    /\ fill_phase' = "rows"
    /\ UNCHANGED <<air_data, fill_input, chunk_size, chunk_i>>

\* one iteration of the row loop of chunk k: window_writer(i), then
\* write_trace_instructions
WriteTraceRow(k) ==
    /\ fill_phase = "rows"
    /\ chunk_i[k] < chunk_size
    /\ LET writer == window_writer(k, chunk_size, chunk_i[k])
           w == write_trace_instructions(air_data, writer_data, writer)
       IN  /\ writer_data' = w.data
           /\ cell_writes' = record_writes(cell_writes, w.cells, k + 1)
           /\ worker_log' = [worker_log EXCEPT ![k + 1] = @ \o w.calls]
    /\ chunk_i' = [chunk_i EXCEPT ![k] = loop_next(@)]
    /\ UNCHANGED <<air_data, fill_input, chunk_size, fill_phase>>

\* every chunk is filled: (trace, public) are taken out of writer_data
TakeTrace ==
    /\ fill_phase = "rows"
    /\ \A k \in DOMAIN chunk_i : chunk_i[k] >= chunk_size
    /\ fill_phase' = "done"
    /\ UNCHANGED <<air_data, writer_data, fill_input, chunk_size, chunk_i,
                   cell_writes, worker_log>>

FillNext ==
    \/ WriteGlobalInstructions /\ UNCHANGED <<mulVars, evalVars, byteVars, s1Vars, blakeVars>>
    \/ (\E k \in DOMAIN chunk_i : WriteTraceRow(k))
           /\ UNCHANGED <<mulVars, evalVars, byteVars, s1Vars, blakeVars>>
    \/ TakeTrace /\ UNCHANGED <<mulVars, evalVars, byteVars, s1Vars, blakeVars>>

SpecFill == FillInit /\ [][FillNext]_vars

----------------------------------------------------------------------------
(* The witness driver: properties *)

\* the instructions with the global flag, of both lists
GlobalInstructions ==
    Range(air_data.global_instructions)
        \cup {ins \in Range(air_data.instructions) : ins.global}
PerRowInstructions == {ins \in Range(air_data.instructions) : ~ins.global}
\* the cells an instruction writes at a row
OwnedCells(ins, row) == {Cell(ins.inner.result, row), Cell(ins.digest, row)}
LaterRows == 1..(blake_num_rows - 1)

\* the calls the row loop of chunk k has made after n iterations: row by
\* row, ascending, every instruction of the list once per row
ExpectedLog(k, n) ==
    LET m == Len(air_data.instructions)
    IN  [j \in 1..(n * m) |->
            [digest |-> air_data.instructions[((j - 1) % m) + 1].digest,
             row_index |-> Some(k * chunk_size + (j - 1) \div m)]]

RECURSIVE fill_rows_from(_, _, _)
fill_rows_from(air, data, row) ==
    IF row = blake_num_rows THEN data
    ELSE fill_rows_from(air, write_trace_instructions(air, data, Some(row)).data,
                        row + 1)
SequentialFill(air, data) ==
    fill_rows_from(air, write_global_instructions(air, data, public_writer).data, 0)

\* C6: with the rows split into 1, 2, 4 or 8 chunks and the row loops of
\* the chunks interleaved, no cell is written by two workers, and the trace
\* and public section of a complete run are those the fill of one worker
\* produces from the same input.
C6_ParallelFillEquivalence ==
    fill_phase # "idle" =>
        /\ \A cell \in AllCells : Cardinality(Range(cell_writes[cell])) <= 1
        /\ fill_phase = "done" => writer_data = SequentialFill(air_data, fill_input)

\* eight workers of one row each have completed a run that wrote results
\* and digests into the last row
C6_Witness ==
    /\ fill_phase = "done"
    /\ chunk_size * 8 = blake_num_rows
    /\ \A k \in DOMAIN chunk_i : worker_log[k + 1] # <<>>
    /\ cell_writes[<<"local", blake_num_rows - 1, 4>>] = <<blake_num_rows \div chunk_size>>
    /\ writer_data.trace[blake_num_rows][3] # 0
    /\ writer_data # fill_input
    /\ writer_data = SequentialFill(air_data, fill_input)

----------------------------------------------------------------------------
(* FpMulConst at full width: Fp25519Param, 16-bit limbs, the constant of    *)
(* test_fpmul_const. A BigUint is the sequence of its 16-bit limbs, low     *)
(* limb first; a field element is written as the integer it is congruent   *)
(* to of least magnitude (every cell and residue of these rows is below     *)
(* 2^31 in magnitude, the field order is above 2^63).                       *)

U16 == 2 ^ 16
FP25519_NB_LIMBS == 16
FP25519_MAX_NB_LIMBS == 32
FP25519_NB_WITNESS_LIMBS == 2 * FP25519_NB_LIMBS - 2
FP25519_WITNESS_OFFSET == 2 ^ 20
\* limbs a BigUint of these runs has room for
BigLen == FP25519_MAX_NB_LIMBS + 2
\* the largest a drawn
S1MaxA == 127

\* the carry (borrow, when negative) into limb k of unnormalised limbs
RECURSIVE carry_into(_, _)
carry_into(raw, k) ==
    IF k = 1 THEN 0 ELSE (raw[k - 1] + carry_into(raw, k - 1)) \div U16
\* BigUint of unnormalised limbs: carries propagated
biguint(raw) ==
    LET limbs == SubSeq(raw, 1, BigLen)
    IN  SubSeq([k \in 1..BigLen |-> (limbs[k] + carry_into(limbs, k)) % U16], 1, BigLen)
biguint_from(n) == biguint([k \in 1..BigLen |-> IF k = 1 THEN n ELSE 0])
biguint_lt(x, y) ==
    \E k \in 1..BigLen : x[k] < y[k] /\ \A j \in (k + 1)..BigLen : x[j] = y[j]
\* x / y and x % y, by repeated subtraction
RECURSIVE biguint_divmod(_, _)
biguint_divmod(x, y) ==
    IF biguint_lt(x, y) THEN [quot |-> 0, rem |-> x]
    ELSE LET d == biguint_divmod(biguint([k \in 1..BigLen |-> x[k] - y[k]]), y)
         IN  [quot |-> d.quot + 1, rem |-> d.rem]

\* the decimal digits of a BigUint in groups of three, low group first
RECURSIVE rem_from(_, _, _)
rem_from(x, d, k) ==
    IF k > BigLen THEN 0 ELSE (rem_from(x, d, k + 1) * U16 + x[k]) % d
RECURSIVE decimal_groups(_)
decimal_groups(x) ==
    IF \A k \in 1..BigLen : x[k] = 0 THEN <<>>
    ELSE LET quot == SubSeq([k \in 1..BigLen |->
                                (rem_from(x, 1000, k + 1) * U16 + x[k]) \div 1000],
                            1, BigLen)
         IN  <<rem_from(x, 1000, 1)>> \o decimal_groups(quot)

\* Fp25519Param::modulus_biguint: 2^255 - 19
fp25519_modulus ==
    [k \in 1..BigLen |->
        IF k = 1 THEN U16 - 19
        ELSE IF k < FP25519_NB_LIMBS THEN U16 - 1
        ELSE IF k = FP25519_NB_LIMBS THEN U16 \div 2 - 1
        ELSE 0]
\* the constant of test_fpmul_const
test_c ==
    [k \in 1..FP25519_MAX_NB_LIMBS |->
        IF k = 1 THEN 100 ELSE IF k = 2 THEN 2 ELSE IF k = 3 THEN 30000 ELSE 0]

c_from_limbs_shifted(cc) ==
    biguint([k \in 1..BigLen |-> IF k - 1 \in 1..Len(cc) THEN cc[k - 1] ELSE 0])
\* trace_row: c += BigUint::from(*limb) << (16 * i)
c_from_limbs(cc) == biguint([k \in 1..BigLen |-> IF k <= Len(cc) THEN cc[k] ELSE 0])

\* FpMulConst::trace_row for a small a
fp25519_trace_row(cc, a) ==
    LET n == FP25519_NB_LIMBS
        cbig == c_from_limbs(cc)
        ac == biguint([k \in 1..BigLen |-> a * cbig[k]])
        dm == biguint_divmod(ac, fp25519_modulus)
        p_a == SubSeq(biguint_from(a), 1, n)
        p_c == SubSeq(cbig, 1, n)
        p_p == SubSeq(fp25519_modulus, 1, n)
        p_result == SubSeq(dm.rem, 1, n)
        p_carry == SubSeq(biguint_from(dm.quot), 1, n)
        vanishing_poly ==
            PolySub(PolySub(PolyMul(p_a, p_c), p_result), PolyMul(p_carry, p_p))
        witness == root_quotient(vanishing_poly, U16)
        witness_shifted ==
            [k \in 1..Len(witness) |-> witness[k] + FP25519_WITNESS_OFFSET]
        witness_low == [k \in 1..Len(witness) |-> witness_shifted[k] % U16]
        witness_high == [k \in 1..Len(witness) |-> witness_shifted[k] \div U16]
    IN  [row |-> p_result \o p_carry \o witness_low \o witness_high,
         result |-> dm.rem]

\* FpMulConst::packed_generic_constraints on the cells of a and of the row
fp25519_constraints(cc, a, row) ==
    LET n == FP25519_NB_LIMBS
        w == FP25519_NB_WITNESS_LIMBS
        result == SubSeq(row, 1, n)
        carry == SubSeq(row, n + 1, 2 * n)
        witness_low == SubSeq(row, 2 * n + 1, 2 * n + w)
        witness_high == SubSeq(row, 2 * n + w + 1, 2 * n + 2 * w)
        vanishing_poly ==
            PolySub(PolySub(PolyMul(a, SubSeq(cc, 1, n)), result),
                    PolyMul(carry, SubSeq(fp25519_modulus, 1, n)))
        w_poly == [k \in 1..w |->
                     witness_low[k] + witness_high[k] * U16 - FP25519_WITNESS_OFFSET]
        witness_times_root == PolyMul(w_poly, <<0 - U16, 1>>)
    IN  [k \in 1..Len(vanishing_poly) |-> vanishing_poly[k] - witness_times_root[k]]

S1Init ==
    /\ MulIdle
    /\ EvalIdle
    /\ ByteIdle
    /\ FillIdle
    /\ BlakeIdle
    /\ s1_a \in 0..S1MaxA
    /\ s1_row = <<>>
    /\ s1_res = <<>>
    /\ s1_residues = <<>>

\* handle.write_fpmul_const(i, &a_int, ac_ins)
S1WriteRow ==
    /\ s1_row = <<>>
    /\ LET t == fp25519_trace_row(test_c, s1_a)
       IN  /\ s1_row' = SubSeq(t.row, 1, Len(t.row))
           /\ s1_res' = t.result
    /\ UNCHANGED <<s1_a, s1_residues>>

\* the prover evaluates the constraints on the row
S1Eval ==
    /\ s1_row # <<>>
    /\ s1_residues = <<>>
    /\ s1_residues' =
           LET r == fp25519_constraints(
                        test_c, SubSeq(biguint_from(s1_a), 1, FP25519_NB_LIMBS), s1_row)
           IN  SubSeq(r, 1, Len(r))
    /\ UNCHANGED <<s1_a, s1_row, s1_res>>

S1Next ==
    \/ S1WriteRow /\ UNCHANGED <<mulVars, evalVars, byteVars, fillVars, blakeVars>>
    \/ S1Eval /\ UNCHANGED <<mulVars, evalVars, byteVars, fillVars, blakeVars>>

SpecS1 == S1Init /\ [][S1Next]_vars

\* C11: for a = 7 and the constant [100, 2, 30000, 0, ...] the result is
\* 7*100 + 7*2*2^16 + 7*30000*2^32 = 901,943,133,078,204 (below p, so the
\* carry is 0), the result and carry cells of the row hold its limbs and
\* zeros, and every constraint residue is zero.
C11_ScenarioS1 ==
    (s1_a = 7 /\ s1_row # <<>>) =>
        /\ s1_res = biguint([k \in 1..BigLen |->
                        IF k = 1 THEN 7 * 100 ELSE IF k = 2 THEN 7 * 2
                        ELSE IF k = 3 THEN 7 * 30000 ELSE 0])
        /\ decimal_groups(s1_res) = <<204, 78, 133, 943, 901>>
        /\ SubSeq(s1_row, 1, FP25519_NB_LIMBS) = SubSeq(s1_res, 1, FP25519_NB_LIMBS)
        /\ \A k \in (FP25519_NB_LIMBS + 1)..(2 * FP25519_NB_LIMBS) : s1_row[k] = 0
        /\ s1_residues # <<>> =>
              /\ Len(s1_residues) = 2 * FP25519_NB_LIMBS - 1
              /\ \A k \in 1..Len(s1_residues) : s1_residues[k] = 0

\* the statement with the number the scenario gives: 900,964,955,648,700
C11_ScenarioS1_AsStated ==
    (s1_a = 7 /\ s1_row # <<>>) =>
        /\ decimal_groups(s1_res) = <<700, 648, 955, 964, 900>>
        /\ \A k \in (FP25519_NB_LIMBS + 1)..(2 * FP25519_NB_LIMBS) : s1_row[k] = 0
        /\ s1_residues # <<>> => \A k \in 1..Len(s1_residues) : s1_residues[k] = 0

\* the row for a = 7 is written and its constraints are evaluated: the third
\* limb of the result carried into the fourth
C11_Witness ==
    /\ s1_a = 7
    /\ s1_residues # <<>>
    /\ s1_row[1] = 700 /\ s1_row[2] = 14 /\ s1_row[3] = 13392 /\ s1_row[4] = 3
    /\ Len(s1_row) = 2 * FP25519_NB_LIMBS + 2 * FP25519_NB_WITNESS_LIMBS

(***************************************************************************)
(* test_blake2b: the preparation of the public inputs of the BLAKE2b chip  *)
(* and the loop that writes them.  A message is its length in bytes and    *)
(* the number of chunks it is padded to; a padded chunk is named by its    *)
(* message and its position, the hash state by the compressions it has     *)
(* absorbed since it was last IV.                                          *)
(***************************************************************************)
CHUNK_BYTES == 128
MaxChunks == 4

\* the lengths tried: the empty message, the chunk boundaries, the message
\* of scenario S4 and the message of the test
MsgLens(max) ==
    {len \in {0, 1, 127, 128, 129, 213, 423,
              CHUNK_BYTES * max - 1, CHUNK_BYTES * max} : len <= CHUNK_BYTES * max}

Messages == UNION {{[len |-> len, max |-> max] : len \in MsgLens(max)} : max \in 1..MaxChunks}

\* BLAKE2BUtil::pad followed by the two chunks_exact: the padded chunks of
\* message k, max of them
pad(k, msg) == [n \in 1..msg.max |-> [msg |-> k, chunk |-> n - 1]]

msg_digest_idx_floor(msg_len) == msg_len \div CHUNK_BYTES

msg_digest_idx(msg_len) == IF msg_len = 0 THEN 0 ELSE (msg_len - 1) \div CHUNK_BYTES

NoValues ==
    [padded_chunks_values |-> <<>>, t_values_values |-> <<>>, end_bits_values |-> <<>>,
     digest_bits_values |-> <<>>, digest_indices_values |-> <<>>, start_index |-> 0]

\* the body of the loop over the messages, for message k
prepare_message(values, k, msg) ==
    LET msg_padded_chunks == pad(k, msg)
        n == Len(msg_padded_chunks)
        idx == msg_digest_idx(msg.len)
        at_digest_chunk(m) == (m - 1 = idx)
    IN  [padded_chunks_values |-> values.padded_chunks_values \o msg_padded_chunks,
         t_values_values |-> values.t_values_values \o
             [m \in 1..n |-> IF at_digest_chunk(m) THEN msg.len ELSE CHUNK_BYTES * m],
         end_bits_values |-> values.end_bits_values \o
             [m \in 1..n |-> IF m - 1 = n - 1 THEN 1 ELSE 0],
         digest_bits_values |-> values.digest_bits_values \o
             [m \in 1..n |-> IF at_digest_chunk(m) THEN 1 ELSE 0],
         digest_indices_values |-> values.digest_indices_values \o
             (IF \E m \in 1..n : at_digest_chunk(m)
              THEN <<values.start_index + idx>> ELSE <<>>),
         start_index |-> values.start_index + n]

IV == <<>>

\* BLAKE2BPure::compress: the state absorbs the chunk, its counter and its
\* last-chunk flag
compress(chunk, state, t, is_last) == Append(state, [chunk |-> chunk, t |-> t, last |-> is_last])

hash_outputs_taken == Len(SelectSeq(write_log, LAMBDA e : e.op = "hash_state"))

BlakeInit ==
    /\ msgs \in UNION {[1..n -> Messages] : n \in {1, 2}}
    /\ msg_next = 1
    /\ input_values = NoValues
    /\ round = 0
    /\ current_state = <<>>
    /\ write_log = <<>>
    /\ blake_pc = "prepare"
    /\ MulIdle /\ EvalIdle /\ ByteIdle /\ FillIdle /\ S1Idle

PrepareMessage ==
    /\ blake_pc = "prepare"
    /\ msg_next <= Len(msgs)
    /\ input_values' = prepare_message(input_values, msg_next, msgs[msg_next])
    /\ msg_next' = msg_next + 1
    /\ UNCHANGED <<msgs, round, current_state, write_log, blake_pc>>

\* the chip is built and the writer made; the loop starts from IV
StartWrite ==
    /\ blake_pc = "prepare"
    /\ msg_next > Len(msgs)
    /\ blake_pc' = "write"
    /\ round' = 0
    /\ current_state' = IV
    /\ write_log' = <<[op |-> "num_messages", value |-> Len(msgs)]>>
    /\ UNCHANGED <<msgs, msg_next, input_values>>

WriteRound ==
    /\ blake_pc = "write"
    /\ round < Len(input_values.padded_chunks_values)
    /\ LET chunk == input_values.padded_chunks_values[round + 1]
           end_bit == input_values.end_bits_values[round + 1]
           digest_bit == input_values.digest_bits_values[round + 1]
           t == input_values.t_values_values[round + 1]
           compressed == compress(chunk, current_state, t, digest_bit = 1)
           inputs == <<[op |-> "round", round |-> round, chunk |-> chunk,
                        end_bit |-> end_bit, digest_bit |-> digest_bit, t |-> t]>>
           hash == IF digest_bit = 1
                   THEN <<[op |-> "hash_state", round |-> round,
                           slot |-> hash_outputs_taken, value |-> compressed]>>
                   ELSE <<>>
           reset == IF end_bit = 1 THEN <<[op |-> "reset", round |-> round]>> ELSE <<>>
       IN  /\ write_log' = write_log \o inputs \o hash \o reset
           /\ current_state' = IF end_bit = 1 THEN IV ELSE compressed
    /\ round' = round + 1
    /\ UNCHANGED <<msgs, msg_next, input_values, blake_pc>>

WriteDigestIndices ==
    /\ blake_pc = "write"
    /\ round = Len(input_values.padded_chunks_values)
    /\ write_log' = write_log \o
           [n \in 1..Len(input_values.digest_indices_values) |->
               [op |-> "digest_index", slot |-> n - 1,
                value |-> input_values.digest_indices_values[n]]]
    /\ blake_pc' = "done"
    /\ UNCHANGED <<msgs, msg_next, input_values, round, current_state>>

BlakeNext ==
    \/ PrepareMessage /\ UNCHANGED <<mulVars, evalVars, byteVars, fillVars, s1Vars>>
    \/ StartWrite /\ UNCHANGED <<mulVars, evalVars, byteVars, fillVars, s1Vars>>
    \/ WriteRound /\ UNCHANGED <<mulVars, evalVars, byteVars, fillVars, s1Vars>>
    \/ WriteDigestIndices /\ UNCHANGED <<mulVars, evalVars, byteVars, fillVars, s1Vars>>

SpecBlake == BlakeInit /\ [][BlakeNext]_vars

\* the message of scenario S4 alone, prepared
ScenarioS4 ==
    /\ msgs = <<[len |-> 213, max |-> 4]>>
    /\ msg_next = 2

\* C12: for the 213-byte message padded to 4 chunks the preparation yields
\* t_values = [128, 213, 213, 213], digest index 1, digest_bits = [0,1,0,0]
\* and end_bits = [0,0,0,1]
C12_ScenarioS4 ==
    ScenarioS4 =>
        /\ Len(input_values.padded_chunks_values) = 4
        /\ input_values.t_values_values = <<128, 213, 213, 213>>
        /\ input_values.digest_indices_values = <<1>>
        /\ input_values.digest_bits_values = <<0, 1, 0, 0>>
        /\ input_values.end_bits_values = <<0, 0, 0, 1>>

\* what the preparation yields for scenario S4: the chunks after the digest
\* chunk carry the running byte count
C12_Observed ==
    ScenarioS4 =>
        /\ Len(input_values.padded_chunks_values) = 4
        /\ input_values.t_values_values = <<128, 213, 384, 512>>
        /\ input_values.digest_indices_values = <<1>>
        /\ input_values.digest_bits_values = <<0, 1, 0, 0>>
        /\ input_values.end_bits_values = <<0, 0, 0, 1>>

\* the first round of message k, and the rounds of its digest and end chunk
RECURSIVE first_round(_)
first_round(k) == IF k = 1 THEN 0 ELSE first_round(k - 1) + msgs[k - 1].max

digest_round(k) ==
    first_round(k) + (IF msgs[k].len = 0 THEN 0 ELSE (msgs[k].len - 1) \div 128)

end_round(k) == first_round(k) + msgs[k].max - 1

Prepared == 1..(msg_next - 1)

RoundsOf(k) == first_round(k)..end_round(k)

LogOf(kind) == SelectSeq(write_log, LAMBDA e : e.op = kind)

\* C16: each prepared message has exactly one digest chunk, at index 0 or
\* (L-1)/128, and exactly one end chunk, its last, not before the digest
\* chunk; it takes one digest index, start_index + digest chunk index, and
\* one hash output; the state is IV exactly after the end chunks
C16_DriverInvariants ==
    blake_pc # "idle" =>
        /\ \A k \in Prepared :
              /\ {n \in RoundsOf(k) : input_values.digest_bits_values[n + 1] = 1}
                     = {digest_round(k)}
              /\ {n \in RoundsOf(k) : input_values.end_bits_values[n + 1] = 1}
                     = {end_round(k)}
              /\ digest_round(k) <= end_round(k)
              /\ input_values.digest_indices_values[k] = digest_round(k)
        /\ Len(input_values.digest_indices_values) = msg_next - 1
        /\ Len(input_values.digest_bits_values) = input_values.start_index
        /\ Len(input_values.end_bits_values) = input_values.start_index
        /\ blake_pc \in {"write", "done"} =>
              /\ \A k \in 1..Len(msgs) :
                    LET taken == {n \in 1..Len(LogOf("hash_state")) :
                                     LogOf("hash_state")[n].round \in RoundsOf(k)}
                    IN  /\ taken = (IF round > digest_round(k) THEN {k} ELSE {})
                        /\ \A n \in taken :
                              /\ LogOf("hash_state")[n].round = digest_round(k)
                              /\ LogOf("hash_state")[n].slot = k - 1
              /\ \A n \in 0..(round - 1) :
                    (\E m \in 1..Len(write_log) :
                        write_log[m] = [op |-> "reset", round |-> n])
                    <=> (\E k \in 1..Len(msgs) : n = end_round(k))
              /\ (current_state = IV)
                    <=> (round = 0 \/ \E k \in 1..Len(msgs) : round - 1 = end_round(k))
        /\ blake_pc = "done" =>
              /\ Len(LogOf("hash_state")) = Len(msgs)
              /\ Len(LogOf("digest_index")) = Len(msgs)
              /\ \A k \in 1..Len(msgs) :
                    LogOf("digest_index")[k] =
                        [op |-> "digest_index", slot |-> k - 1, value |-> digest_round(k)]

\* two messages, the first empty, the second ending on a chunk boundary
\* short of its padding, both written out
C16_Witness ==
    /\ blake_pc = "done"
    /\ Len(msgs) = 2
    /\ msgs[1].len = 0
    /\ msgs[1].max = 2
    /\ msgs[2] = [len |-> 128, max |-> 3]
    /\ input_values.digest_indices_values = <<0, 2>>
    /\ current_state = IV
    /\ Len(LogOf("reset")) = 2

====
